---- MODULE Spec2Model ----
(***************************************************************************)
(* StatisticBase_PSpec2D of turbustat/statistics/base_pspec2.py as a state *)
(* machine: one object holding a 2D power spectrum, its radial profile,    *)
(* the 1D fit results and the 2D fit results.  One action per public       *)
(* method; an action is the whole method, error exits included.  The       *)
(* function break_spline of dendrograms/dendro_stats.py is kept beside it, *)
(* applied to the knots of a spline, and so are the Tsallis object of      *)
(* tsallis/tsallis.py, the constructor of DendroDistance and the Genus     *)
(* object of genus/genus.py, each with its own variables and its own       *)
(* specification.                                                          *)
(*                                                                         *)
(* Units.  Spatial frequencies are integers in units of 1/GridN cycles per *)
(* pixel, so the pixel (ky, kx) of the spectrum has the radial frequency   *)
(* sqrt(ky^2 + kx^2) and a comparison with a cut c >= 0 is made on the     *)
(* squares.  log10 is kept symbolic: Log10F(f) is a tagged value ordered   *)
(* as the logarithm orders it, and -inf where the argument is 0.           *)
(***************************************************************************)
EXTENDS Integers, Sequences, FiniteSets, TLC

(* ------------------------------ bounds -------------------------------- *)
GridN == 6
MaxKnots == 5          \* the longest knot sequence of a spline
KnotSpan == 3          \* knots lie within KnotSpan tenths of knot_expec
MaxDim == 5            \* the longest axis of a Tsallis image
MaxLevels == 4         \* DendroDistance: at most MaxLevels min_delta levels
MaxPts == 4            \* Genus: numpts is at most MaxPts
MaxRuns == 3           \* Genus: run() is called at most MaxRuns times

(* --------------------------- value helpers ---------------------------- *)
None == [k |-> "None"]
Unset == [k |-> "unset"]

Quantity(v, unit) == [k |-> "Quantity", value |-> v, unit |-> unit]
Num(v) == [k |-> "num", v |-> v]
Arr(s) == [k |-> "arr", v |-> s]

RECURSIVE SumOver(_, _)
SumOver(S, f) ==
  IF S = {} THEN 0
  ELSE LET e == CHOOSE e \in S : TRUE IN f[e] + SumOver(S \ {e}, f)

RECURSIVE SortedSeq(_)
SortedSeq(S) ==
  IF S = {} THEN <<>>
  ELSE LET m == CHOOSE m \in S : \A o \in S : m <= o
       IN <<m>> \o SortedSeq(S \ {m})

SeqMax(s) == CHOOSE m \in {s[i] : i \in 1..Len(s)} :
                \A i \in 1..Len(s) : s[i] <= m

(* np.log10 of a frequency and of a binned power (a mean sum/n, sum >= 0) *)
Log10F(f) == IF f > 0 THEN [k |-> "fin", of |-> f] ELSE [k |-> "ninf"]
Log10P(p) == IF p.sum > 0 THEN [k |-> "fin", sum |-> p.sum, n |-> p.n]
             ELSE [k |-> "ninf"]
(* np.log10 of a within-bin standard deviation sqrt(num)/n, num >= 0 *)
Log10S(s) == IF s.num > 0 THEN [k |-> "fin", num |-> s.num, n |-> s.n]
             ELSE [k |-> "ninf"]

(* a < b for two log10 frequencies *)
LogLT(a, b) ==
  \/ a.k = "ninf" /\ b.k = "fin"
  \/ a.k = "fin" /\ b.k = "fin" /\ a.of < b.of

(* 10 ** a for a finite log10 frequency *)
Pow10(a) == a.of

(* ------------------------ the 2D power spectrum ------------------------ *)
(* make_radial_freq_arrays: fftshift(fftfreq(n)) * n along each axis *)
Ks == (0 - (GridN \div 2)) .. ((GridN - 1) \div 2)
Pixels == Ks \X Ks
R2(p) == p[1] * p[1] + p[2] * p[2]

(* radial bin of a pixel: the integer nearest to its radial frequency *)
RadialBin == [p \in Pixels |->
                CHOOSE b \in 0..GridN :
                  (b = 0 \/ (2 * b - 1) * (2 * b - 1) <= 4 * R2(p))
                  /\ 4 * R2(p) < (2 * b + 1) * (2 * b + 1)]
BinOf(p) == RadialBin[p]

(* the spectra the object is built with: a falling power law, with or
   without one ring of zero power *)
MaxR2 == 2 * (GridN \div 2) * (GridN \div 2)
(* the ps2D property: self._ps2D[::-1], the rows reversed *)
FlipRow(ky) == (GridN - 1) - 2 * (GridN \div 2) - ky
Flip(p) == <<FlipRow(p[1]), p[2]>>
ps2DOf(raw) == [p \in Pixels |-> raw[Flip(p)]]

SpectrumWith(zeroRing) ==
  [p \in Pixels |-> IF BinOf(Flip(p)) = zeroRing THEN 0
                    ELSE MaxR2 + 1 - R2(Flip(p))]
TopBin == CHOOSE b \in 0..GridN :
            /\ \E p \in Pixels : BinOf(p) = b
            /\ \A p \in Pixels : BinOf(p) <= b
ZeroRings == {TopBin}
SpectrumOf == [z \in ZeroRings |-> SpectrumWith(z)]
Spectra == {SpectrumOf[z] : z \in ZeroRings}
FlippedOf == [z \in ZeroRings |-> ps2DOf(SpectrumOf[z])]
(* self._ps2D after the property was read: [::-1] is a view, the stored
   array stays as it is *)
Ps2DAfterRead_reversed(raw) == ps2DOf(raw)
Ps2DAfterRead(raw) == raw


(* ---------------------------- radial binning --------------------------- *)
(* azimuthal sector about the kx axis, used when theta_0 is given *)
AzimMaskOf(theta0) ==
  [p \in Pixels |-> IF theta0 = None THEN TRUE
                    ELSE p[1] * p[1] <= p[2] * p[2]]

(* the bin a radius falls in: itself, or with logspacing the largest power
   of two not above it *)
RECURSIVE Pow2Floor(_)
Pow2Floor(b) == IF b <= 1 THEN b ELSE 2 * Pow2Floor(b \div 2)
BinFreq(p, logspacing) == IF logspacing THEN Pow2Floor(BinOf(p)) ELSE BinOf(p)

(* psds.pspec: the radial profile of a spectrum.  A bin holds the pixels of
   one radius inside the azimuthal sector; bins above max_bin and bins
   without pixels are dropped.  The mean of a bin is kept as (sum, n), its
   standard deviation as (n * sum of squares - sum^2, n). *)
pspec(img, return_stddev, logspacing, max_bin, theta0) ==
  LET am == AzimMaskOf(theta0)
      inBin(f) == {p \in Pixels : BinFreq(p, logspacing) = f /\ am[p]}
      fs == {f \in 0..GridN :
               /\ inBin(f) # {}
               /\ (max_bin = None \/ f <= max_bin.v)}
      frq == SortedSeq(fs)
      sq == [p \in Pixels |-> img[p] * img[p]]
      mean(f) == [sum |-> SumOver(inBin(f), img), n |-> Cardinality(inBin(f))]
      sd(f) == [num |-> Cardinality(inBin(f)) * SumOver(inBin(f), sq)
                        - SumOver(inBin(f), img) * SumOver(inBin(f), img),
                n |-> Cardinality(inBin(f))]
  IN [freqs |-> frq,
      ps1D |-> [i \in 1..Len(frq) |-> mean(frq[i])],
      stddev |-> [i \in 1..Len(frq) |-> sd(frq[i])],
      azim_mask |-> am]

(* ------------------------------- state -------------------------------- *)
VARIABLES
  raw_ps2D,        \* self._ps2D
  binned,          \* compute_radial_pspec has set _freqs, _ps1D and the flags
  freqs,           \* self._freqs
  ps1D,            \* self._ps1D
  ps1D_stddev,     \* self._ps1D_stddev
  azim_mask,       \* self._azim_mask
  stddev_flag,     \* self._stddev_flag
  azim_flag,       \* self._azim_constraint_flag
  low_cut,         \* self.low_cut
  high_cut,        \* self.high_cut
  res1D,           \* self._brk, _brk_err, _slope, _slope_err, self.fit
  res2D,           \* self.fit2D, _slope2D, _theta2D, _ellip2D and errors
  binning,         \* the arguments of the latest compute_radial_pspec
  last,            \* the last call: its name and arguments, how it ended,
                   \* what it warned about and which fitters it invoked
  knots,           \* break_spline: s.get_knots(), in tenths
  spline_brk,      \* break_spline: the value returned
  ts_shape,        \* Tsallis: self.data.shape
  ts_lags,         \* Tsallis: self._lags
  ts_distribs,     \* Tsallis: self._lag_distribs
  ts_fit,          \* Tsallis: _tsallis_params, _tsallis_stderrs, _tsallis_chisq
  ts_last,         \* Tsallis: the last call and how it ended
  dd_numfeatures,  \* DendroDistance: numfeatures of dendro1 and of dendro2
  dd_cutoff,       \* DendroDistance: self.cutoff
  dd_last,         \* DendroDistance: the constructor call and how it ended
  ge_radii,        \* Genus: self.smoothing_radii
  ge_thresholds,   \* Genus: self.thresholds
  ge_nanflag,      \* Genus: self.nanflag
  ge_smoothed,     \* Genus: self.smoothed_images
  ge_stats,        \* Genus: self.genus_stats
  ge_last          \* Genus: the last call

binvars == <<binned, freqs, ps1D, ps1D_stddev, azim_mask, stddev_flag,
             azim_flag, binning>>
splinevars == <<knots, spline_brk>>
objvars == <<raw_ps2D, binned, freqs, ps1D, ps1D_stddev, azim_mask,
             stddev_flag, azim_flag, low_cut, high_cut, res1D, res2D,
             binning, last>>
tsvars == <<ts_shape, ts_lags, ts_distribs, ts_fit, ts_last>>
ddvars == <<dd_numfeatures, dd_cutoff, dd_last>>
gevars ==
  <<ge_radii, ge_thresholds, ge_nanflag, ge_smoothed, ge_stats, ge_last>>
vars == <<objvars, splinevars, tsvars, ddvars, gevars>>

Res1DUnset == [brk |-> Unset, brk_err |-> Unset, slope |-> Unset,
               slope_err |-> Unset, fit |-> Unset]
Res2DUnset == [fit2D |-> Unset, slope2D |-> Unset, slope2D_err |-> Unset,
               theta2D |-> Unset, theta2D_err |-> Unset,
               ellip2D |-> Unset, ellip2D_err |-> Unset]

Call(op, args, outcome, warned, invoked) ==
  [op |-> op, args |-> args, outcome |-> outcome, warned |-> warned,
   invoked |-> invoked]

Returned == "returned"
IsError(c) == c.outcome # Returned

(* the object after construction: only the 2D spectrum is set *)
InitObject ==
  /\ raw_ps2D \in Spectra
  /\ binned = FALSE /\ freqs = <<>> /\ ps1D = <<>>
  /\ stddev_flag = FALSE /\ azim_flag = FALSE
  /\ ps1D_stddev = Unset /\ azim_mask = Unset
  /\ low_cut = Unset /\ high_cut = Unset
  /\ res1D = Res1DUnset
  /\ res2D = Res2DUnset
  /\ binning = None
  /\ last = Call("__init__", None, Returned, {}, {})

(* no spline, no Tsallis, no DendroDistance and no Genus to begin with *)
Init ==
  /\ InitObject
  /\ knots = <<>> /\ spline_brk = Unset
  /\ ts_shape = Unset /\ ts_lags = Unset /\ ts_distribs = Unset
  /\ ts_fit = Unset /\ ts_last = Unset
  /\ dd_numfeatures = Unset /\ dd_cutoff = Unset /\ dd_last = Unset
  /\ ge_radii = Unset /\ ge_thresholds = <<>> /\ ge_nanflag = FALSE
  /\ ge_smoothed = <<>> /\ ge_stats = Unset /\ ge_last = Unset

(* ------------------------- compute_radial_pspec ------------------------ *)
MaxBinChoices == {None, Num(TopBin - 1)}
Theta0Choices == {None, [k |-> "angle"]}

(* pspec(self.ps2D, ...) for every spectrum and every choice of options;
   pspec is a pure function, evaluated once per argument *)
RadialProfile ==
  [z \in ZeroRings, rs \in BOOLEAN, ls \in BOOLEAN, mb \in MaxBinChoices,
   t0 \in Theta0Choices |-> pspec(FlippedOf[z], rs, ls, mb, t0)]

StddevFlag_sticky(return_stddev) == stddev_flag \/ return_stddev
StddevFlag(return_stddev) == return_stddev

compute_radial_pspec(return_stddev, logspacing, max_bin, theta0) ==
  LET azim_constraint_flag == theta0 # None
      args == [return_stddev |-> return_stddev, logspacing |-> logspacing,
               max_bin |-> max_bin, theta_0 |-> theta0]
  IN \E z \in ZeroRings :
     /\ raw_ps2D = SpectrumOf[z]
     /\ \E out \in {RadialProfile[z, return_stddev, logspacing, max_bin,
                                  theta0]} :
          /\ binned' = TRUE
          /\ stddev_flag' = StddevFlag(return_stddev)
          /\ azim_flag' = azim_constraint_flag
          /\ freqs' = out.freqs
          /\ ps1D' = out.ps1D
          /\ ps1D_stddev' = IF return_stddev THEN Arr(out.stddev)
                             ELSE ps1D_stddev
          /\ azim_mask' = IF azim_constraint_flag THEN Arr(out.azim_mask)
                          ELSE azim_mask
          /\ binning' = args
          /\ last' = [repeated |-> binning = args]
                        @@ Call("compute_radial_pspec", args, Returned,
                                {}, {})
          /\ raw_ps2D' = Ps2DAfterRead(raw_ps2D)
          /\ UNCHANGED <<low_cut, high_cut, res1D, res2D, splinevars, tsvars, ddvars, gevars>>

ComputeRadialPspec1D ==
  \E rs \in BOOLEAN, mb \in MaxBinChoices :
    compute_radial_pspec(rs, FALSE, mb, None)

(* ------------------------------ fit_pspec ------------------------------ *)
DefaultLowCut == 2          \* 1 / (0.5 * max(shape)), in units of 1/GridN

(* _to_pixel_freq: 1 / _to_pixel(1 / value).  A pixel frequency comes back
   as it is; no header or distance is set, so any other unit is refused. *)
_to_pixel_freq(q) ==
  IF q.k = "Quantity" /\ q.unit = "1/pix"
  THEN [ok |-> TRUE, q |-> Quantity(q.value, "1/pix")]
  ELSE [ok |-> FALSE, err |-> "UnitConversionError"]

(* fitting_utils.clip_func(arr, low, high): low <= arr <= high *)
clip_func(a, low, high) == low <= a /\ a <= high

(* the indices of the radial profile inside the cuts, in order *)
ClipIdx(fr, lo, hi) ==
  SortedSeq({i \in 1..Len(fr) : clip_func(fr[i], lo, hi)})

Take(s, idx) == [j \in 1..Len(idx) |-> s[idx[j]]]

(* lines 148-151: the log10 of the frequencies and of the spectrum inside
   the cuts *)
FitX(lo, hi) ==
  Take([i \in 1..Len(freqs) |-> Log10F(freqs[i])], ClipIdx(freqs, lo, hi))
FitY(lo, hi) ==
  Take([i \in 1..Len(freqs) |-> Log10P(ps1D[i])], ClipIdx(freqs, lo, hi))

IsFinite(v) == v.k = "fin"
FiniteFreqs(x) == {x[i].of : i \in {j \in 1..Len(x) : IsFinite(x[j])}}

(* the fits, named by the model and the data handed to it *)
OLSFit(x, y) == [k |-> "OLS", x |-> x, y |-> y]
Weights(y_err) == [i \in 1..Len(y_err) |-> [k |-> "1/sq", of |-> y_err[i]]]
WLSFit(x, y, w) == [k |-> "WLS", x |-> x, y |-> y, weights |-> w]
SegFit(x, y, guess, b) ==
  [k |-> "Lm_Seg", x |-> x, y |-> y, guess |-> guess, brk |-> b]
Part(fit, what) == [k |-> what, of |-> fit]

(* Lm_Seg(x, y, brk).fit_model(): it raises on no data or on a guess outside
   the data; otherwise it fails (params.size # 5) or fits a break at a
   frequency strictly inside the data. *)
SegOutcomes(x, guess) ==
  LET fs == FiniteFreqs(x)
      lo == CHOOSE m \in fs : \A o \in fs : m <= o
      hi == CHOOSE m \in fs : \A o \in fs : o <= m
  IN IF fs = {} \/ ~IsFinite(guess) THEN {[k |-> "raise"]}
     ELSE IF ~(lo < guess.of /\ guess.of < hi) THEN {[k |-> "raise"]}
     ELSE {[k |-> "failed"]}
          \cup {[k |-> "ok", brk |-> Log10F(b)] : b \in (lo + 1)..(hi - 1)}

(* sm.add_constant and sm.OLS / sm.WLS (..., missing='drop').fit() followed
   by params[1], bse[1]: no row raises; a single row or a non-finite value
   gives a fit or an error of the library, as its version has it. *)
SmOutcomes(x, y) ==
  IF Len(x) = 0 THEN {"raise"}
  ELSE IF Len(x) = 1 THEN {"fit", "index_error"}
  ELSE IF \E i \in 1..Len(x) : ~IsFinite(x[i]) \/ ~IsFinite(y[i])
       THEN {"fit", "raise"}
  ELSE {"fit"}

(* line 186: sum(x < brk_fit.brk) < min_fits_pts *)
BelowBreak_beyond(x, b) == Cardinality({i \in 1..Len(x) : LogLT(b, x[i])})
BelowBreak(x, b) == Cardinality({i \in 1..Len(x) : LogLT(x[i], b)})
TooFewPoints_never(x, b, min_fits_pts) == FALSE
TooFewPoints(x, b, min_fits_pts) == BelowBreak(x, b) < min_fits_pts

(* lines 153-157: a weighted fit cannot have a break *)
IncompatibleOptions_unchecked(weighted_fit, brk) == FALSE
IncompatibleOptions(weighted_fit, brk) == weighted_fit /\ brk # None

(* lines 136-146: the cuts.  A record of the assignments made and of the
   error that ended them, if one did. *)
SetCuts_lowest_mode(low, high) ==
  LET lc == IF low = None
            THEN [ok |-> TRUE, q |-> Quantity(1, "1/pix")]
            ELSE _to_pixel_freq(low)
      hc == IF high = None
            THEN IF ~binned
                 THEN [ok |-> FALSE, err |-> "AttributeError"]
                 ELSE [ok |-> TRUE, q |-> Quantity(SeqMax(freqs), "1/pix")]
            ELSE _to_pixel_freq(high)
  IN IF ~lc.ok THEN [err |-> lc.err, low_cut |-> low_cut,
                     high_cut |-> high_cut]
     ELSE IF ~hc.ok THEN [err |-> hc.err, low_cut |-> lc.q,
                          high_cut |-> high_cut]
     ELSE [err |-> "", low_cut |-> lc.q, high_cut |-> hc.q]
SetCuts(low, high) ==
  LET lc == IF low = None
            THEN [ok |-> TRUE, q |-> Quantity(DefaultLowCut, "1/pix")]
            ELSE _to_pixel_freq(low)
      hc == IF high = None
            THEN IF ~binned
                 THEN [ok |-> FALSE, err |-> "AttributeError"]
                 ELSE [ok |-> TRUE, q |-> Quantity(SeqMax(freqs), "1/pix")]
            ELSE _to_pixel_freq(high)
  IN IF ~lc.ok THEN [err |-> lc.err, low_cut |-> low_cut,
                     high_cut |-> high_cut]
     ELSE IF ~hc.ok THEN [err |-> hc.err, low_cut |-> lc.q,
                          high_cut |-> high_cut]
     ELSE [err |-> "", low_cut |-> lc.q, high_cut |-> hc.q]

(* lines 168-177: the break guess as a log10 pixel frequency *)
BreakGuess(brk, log_break) ==
  IF ~log_break
  THEN LET c == _to_pixel_freq(brk)
       IN IF c.ok THEN [ok |-> TRUE, g |-> Log10F(c.q.value)]
          ELSE [ok |-> FALSE, err |-> c.err]
  ELSE IF brk.k = "Quantity"
       THEN [ok |-> FALSE, err |-> "AssertionError"]
       ELSE [ok |-> TRUE, g |-> brk.log]

(* lines 214-225: the line without a break, over the x and y given *)
FitLine_stale_err(r, x, y, y_err, weighted_fit, sm, call) ==
  LET fit == IF weighted_fit THEN WLSFit(x, y, Weights(y_err))
             ELSE OLSFit(x, y)
      model == IF weighted_fit THEN "WLS" ELSE "OLS"
      c == [call EXCEPT !.invoked = @ \cup {model}]
  IN IF sm = "raise"
     THEN [res |-> r, call |-> [c EXCEPT !.outcome = "StatsmodelsError"]]
     ELSE IF sm = "index_error"
     THEN [res |-> [r EXCEPT !.fit = fit],
           call |-> [c EXCEPT !.outcome = "IndexError"]]
     ELSE [res |-> [r EXCEPT !.fit = fit,
                             !.slope = Part(fit, "params[1]")],
           call |-> c]

FitLine_unweighted(r, x, y, y_err, weighted_fit, sm, call) ==
  LET fit == OLSFit(x, y)
      model == "OLS"
      c == [call EXCEPT !.invoked = @ \cup {model}]
  IN IF sm = "raise"
     THEN [res |-> r, call |-> [c EXCEPT !.outcome = "StatsmodelsError"]]
     ELSE IF sm = "index_error"
     THEN [res |-> [r EXCEPT !.fit = fit],
           call |-> [c EXCEPT !.outcome = "IndexError"]]
     ELSE [res |-> [r EXCEPT !.fit = fit,
                             !.slope = Part(fit, "params[1]"),
                             !.slope_err = Part(fit, "bse[1]")],
           call |-> c]

FitLine(r, x, y, y_err, weighted_fit, sm, call) ==
  LET fit == IF weighted_fit THEN WLSFit(x, y, Weights(y_err))
             ELSE OLSFit(x, y)
      model == IF weighted_fit THEN "WLS" ELSE "OLS"
      c == [call EXCEPT !.invoked = @ \cup {model}]
  IN IF sm = "raise"
     THEN [res |-> r, call |-> [c EXCEPT !.outcome = "StatsmodelsError"]]
     ELSE IF sm = "index_error"
     THEN [res |-> [r EXCEPT !.fit = fit],
           call |-> [c EXCEPT !.outcome = "IndexError"]]
     ELSE [res |-> [r EXCEPT !.fit = fit,
                             !.slope = Part(fit, "params[1]"),
                             !.slope_err = Part(fit, "bse[1]")],
           call |-> c]

(* lines 148-225, once the cuts are set *)
FitBody(brk, log_break, min_fits_pts, weighted_fit, seg, sm, lo, hi) ==
  LET idx == ClipIdx(freqs, lo, hi)
      x == FitX(lo, hi)
      y == FitY(lo, hi)
      y_err == IF weighted_fit /\ stddev_flag
               THEN Take([i \in 1..Len(freqs) |->
                            Log10S(ps1D_stddev.v[i])], idx)
               ELSE <<>>
      call == Call("fit_pspec",
                   [brk |-> brk, log_break |-> log_break,
                    min_fits_pts |-> min_fits_pts,
                    weighted_fit |-> weighted_fit,
                    Lm_Seg |-> seg, statsmodels |-> sm],
                   Returned, {}, {})
      fail(e) == [res |-> res1D, call |-> [call EXCEPT !.outcome = e]]
      g == BreakGuess(brk, log_break)
  IN IF IncompatibleOptions(weighted_fit, brk)
     THEN fail("ValueError_WLS_break")
     ELSE IF weighted_fit /\ ~stddev_flag THEN fail("ValueError_no_stddev")
     ELSE IF weighted_fit /\ Len(ps1D_stddev.v) # Len(freqs)
     THEN fail("IndexError")
     ELSE IF brk = None
     THEN FitLine([res1D EXCEPT !.brk = None, !.brk_err = None],
                  x, y, y_err, weighted_fit, sm, call)
     ELSE IF ~g.ok THEN fail(g.err)
     ELSE LET cs == [call EXCEPT !.invoked = {"Lm_Seg"}]
          IN IF seg.k = "raise"
             THEN [res |-> res1D,
                   call |-> [cs EXCEPT !.outcome = "LmSegError"]]
             ELSE IF seg.k = "failed"
             THEN FitLine([res1D EXCEPT !.brk = None], x, y, y_err,
                          weighted_fit, sm,
                          [cs EXCEPT !.warned = {"BreakFailed"}])
             ELSE IF TooFewPoints(x, seg.brk, min_fits_pts)
             THEN FitLine([res1D EXCEPT !.brk = None], x, y, y_err,
                          weighted_fit, sm,
                          [cs EXCEPT !.warned = {"NotEnoughPoints"}])
             ELSE LET fit == SegFit(x, y, g.g, seg.brk)
                  IN [res |-> [brk |-> Quantity(Pow10(seg.brk), "1/pix"),
                               brk_err |-> Part(fit, "brk_err"),
                               slope |-> Part(fit, "slopes"),
                               slope_err |-> Part(fit, "slope_errs"),
                               fit |-> fit],
                      call |-> cs]

(* what Lm_Seg and statsmodels may answer for this call; a library the
   call does not reach is not asked *)
Unasked == [k |-> "unasked"]
Refused(brk, weighted_fit) ==
  \/ IncompatibleOptions(weighted_fit, brk)
  \/ weighted_fit /\ ~stddev_flag
  \/ weighted_fit /\ Len(ps1D_stddev.v) # Len(freqs)
SegChoices(brk, log_break, weighted_fit, lo, hi) ==
  IF Refused(brk, weighted_fit) \/ brk = None THEN {Unasked}
  ELSE LET g == BreakGuess(brk, log_break)
       IN IF ~g.ok THEN {Unasked} ELSE SegOutcomes(FitX(lo, hi), g.g)
SmChoices(brk, weighted_fit, min_fits_pts, seg, lo, hi) ==
  IF Refused(brk, weighted_fit) THEN {"unasked"}
  ELSE IF brk = None \/ seg.k = "failed"
          \/ (seg.k = "ok" /\ TooFewPoints(FitX(lo, hi), seg.brk,
                                           min_fits_pts))
  THEN SmOutcomes(FitX(lo, hi), FitY(lo, hi))
  ELSE {"unasked"}

fit_pspec(brk, log_break, low, high, min_fits_pts, weighted_fit, seg, sm) ==
  LET cuts == SetCuts(low, high)
  IN /\ low_cut' = cuts.low_cut
     /\ high_cut' = cuts.high_cut
     /\ IF cuts.err # "" \/ ~binned
        THEN /\ res1D' = res1D
             /\ last' = Call("fit_pspec",
                              [brk |-> brk, log_break |-> log_break,
                               low_cut |-> low, high_cut |-> high,
                               min_fits_pts |-> min_fits_pts,
                               weighted_fit |-> weighted_fit,
                               Lm_Seg |-> seg, statsmodels |-> sm],
                              IF cuts.err # "" THEN cuts.err
                              ELSE "AttributeError", {}, {})
        ELSE \E r \in {FitBody(brk, log_break, min_fits_pts, weighted_fit,
                                seg, sm, cuts.low_cut.value,
                                cuts.high_cut.value)} :
               /\ res1D' = r.res
               /\ last' = [r.call EXCEPT
                             !.args = [low_cut |-> low, high_cut |-> high]
                                        @@ @]
     /\ raw_ps2D' = Ps2DAfterRead(raw_ps2D)
     /\ UNCHANGED <<binvars, res2D, splinevars, tsvars, ddvars, gevars>>

LowCutChoices == {None, Quantity(1, "1/pix")}
HighCutChoices == {None, Quantity(1, "1/pix")}
BrkGuess == TopBin - 1      \* a guess inside the profile
BrkChoices == {None, Quantity(BrkGuess, "1/pix"),
               [k |-> "dimensionless", log |-> Log10F(BrkGuess)]}
MinPtsDefault == 10
MinPtsChoices == {2, MinPtsDefault}

(* the arguments of a call; an argument the call never reads is left at its
   default *)
FitPspecWith(brks, lows, highs, weighteds) ==
  \E brk \in brks, low \in lows, high \in highs,
     weighted_fit \in weighteds :
    \E log_break \in IF brk = None THEN {FALSE}
                      ELSE {brk.k = "dimensionless"} :
      LET cuts == SetCuts(low, high)
          lo == cuts.low_cut.value
          hi == cuts.high_cut.value
      IN IF cuts.err # "" \/ ~binned
         THEN fit_pspec(brk, log_break, low, high, MinPtsDefault,
                        weighted_fit, Unasked, "unasked")
         ELSE \E seg \in SegChoices(brk, log_break, weighted_fit, lo, hi) :
                \E min_fits_pts \in IF seg.k = "ok" THEN MinPtsChoices
                                    ELSE {MinPtsDefault} :
                  \E sm \in SmChoices(brk, weighted_fit, min_fits_pts, seg,
                                      lo, hi) :
                    fit_pspec(brk, log_break, low, high, min_fits_pts,
                              weighted_fit, seg, sm)

FitPspec == FitPspecWith(BrkChoices, LowCutChoices, HighCutChoices, BOOLEAN)

Next == ComputeRadialPspec1D \/ FitPspec


Spec == Init /\ [][Next]_vars

(* ----------------------------- fit_2Dpspec ----------------------------- *)
(* psds.make_radial_freq_arrays(shape): the frequency of the row and of the
   column of every pixel *)
make_radial_freq_arrays ==
  [yy_freq |-> [p \in Pixels |-> p[1]], xx_freq |-> [p \in Pixels |-> p[2]]]

(* line 348: freqs_dist = sqrt(yy_freq**2 + xx_freq**2), kept as its square *)
freqs_dist_sq ==
  [p \in Pixels |-> make_radial_freq_arrays.yy_freq[p]
                      * make_radial_freq_arrays.yy_freq[p]
                    + make_radial_freq_arrays.xx_freq[p]
                      * make_radial_freq_arrays.xx_freq[p]]

(* lines 350-353: the pixels to fit.  With low and high not negative,
   low <= sqrt(d) <= high is low^2 <= d <= high^2. *)
Mask2D_without_azim(low, high, use_azimmask) ==
  [p \in Pixels |-> clip_func(freqs_dist_sq[p], low * low, high * high)]
Mask2D(low, high, use_azimmask) ==
  LET mask == [p \in Pixels |->
                 clip_func(freqs_dist_sq[p], low * low, high * high)]
  IN IF azim_mask # Unset /\ use_azimmask
     THEN [p \in Pixels |-> mask[p] /\ azim_mask.v[p]]
     ELSE mask

(* line 355: not mask.any() *)
EmptyMask_unchecked(mask) == FALSE
EmptyMask(mask) == ~ \E p \in DOMAIN mask : mask[p]

(* Floating-point numbers with a significand of MantBits bits, as multiples
   of the smallest one; Round is round-to-nearest, ties to even. *)
MantBits == 2
ExpMax == MantBits + 1
Magnitudes == {m * 2 ^ e : m \in 0..(2 ^ MantBits - 1), e \in 0..ExpMax}
Floats == Magnitudes \cup {0 - v : v \in Magnitudes}
Abs(v) == IF v < 0 THEN 0 - v ELSE v
RoundMag(v) ==
  LET lo == CHOOSE f \in Magnitudes :
              f <= v /\ \A g \in Magnitudes : g <= v => g <= f
      hi == CHOOSE f \in Magnitudes :
              v <= f /\ \A g \in Magnitudes : v <= g => f <= g
  IN IF v \in Magnitudes THEN v
     ELSE IF v - lo < hi - v THEN lo
     ELSE IF hi - v < v - lo THEN hi
     ELSE IF (lo \div (hi - lo)) % 2 = 0 THEN lo ELSE hi
Round(v) == IF v < 0 THEN 0 - RoundMag(0 - v) ELSE RoundMag(v)

(* np.pi, and np.pi / 2: floating-point numbers *)
PI_F == 3 * 2 ^ MantBits
HalfPI_F == 3 * 2 ^ (MantBits - 1)

(* C fmod(a, b): exact, with the sign of a *)
fmod(a, b) == IF a < 0 THEN 0 - (Abs(a) % Abs(b)) ELSE a % Abs(b)

(* line 393: params[2] % np.pi on float64, numpy's remainder: fmod, then
   the divisor is added, in floating point, when the signs differ *)
np_remainder(a, b) ==
  LET mod == fmod(a, b)
  IN IF mod = 0 THEN 0
     ELSE IF (b < 0) # (mod < 0) THEN Round(mod + b)
     ELSE mod

(* elliptical_powerlaw.interval_transform(e, 0, 1): the raw (unbounded)
   parameter of a bounded ellipticity; e is in hundredths.  The transform is
   monotonic and invertible, so a raw parameter is named by the bounded
   value it stands for. *)
interval_transform(e) == [k |-> "raw", of |-> e]
(* elliptical_powerlaw.inverse_interval_transform(x, 0, 1): the bounded
   ellipticity of a raw parameter, in hundredths, and the standard error
   carried through the transform at the raw parameter x *)
inverse_interval_transform(x) == [k |-> "ellip", v |-> x.of]
inverse_interval_transform_stderr(stderr, x) ==
  [k |-> "inverse_interval_transform_stderr", of |-> x, stderr |-> stderr]

(* lines 397-399: the reported ellipticity and its error *)
Ellip2D(params1) == inverse_interval_transform(params1)
Ellip2DErr_raw(stderr1, params1) == stderr1
Ellip2DErr(stderr1, params1) ==
  inverse_interval_transform_stderr(stderr1, params1)

(* line 403: self.ellip2D > 0.97, in hundredths *)
IsotropyLimit == 97
NearOne_inclusive(ellip) == ellip.v >= IsotropyLimit
NearOne(ellip) == ellip.v > IsotropyLimit

(* lines 359-375: the initial parameters (amplitude, ellip_conv, theta,
   slope) *)
InitialParams_unseeded(p0) ==
  IF p0 # <<>> THEN p0
  ELSE <<[k |-> "log10(nanmax(ps2D))"], Num(0), Num(HalfPI_F), Num(-2)>>
InitialParams(p0) ==
  IF p0 # <<>> THEN p0
  ELSE LET seeded == res1D.slope # Unset
           slope_guess == IF ~seeded THEN Num(-2)
                          ELSE IF res1D.slope.k = "slopes"
                          THEN Part(res1D.slope, "[0]")
                          ELSE res1D.slope
           amp_guess == IF seeded THEN Part(res1D.fit, "params[0]")
                        ELSE [k |-> "log10(nanmax(ps2D))"]
       IN <<amp_guess, Num(0), Num(HalfPI_F), slope_guess>>

(* elliptical_powerlaw.fit_elliptical_powerlaw: the model fitted to the
   masked pixels from p0; params[1] and params[2] are what the optimizer
   ends on *)
fit_elliptical_powerlaw(mask, p0) ==
  [k |-> "fit_elliptical_powerlaw", mask |-> mask, p0 |-> p0]
ThetaChoices == {t \in Floats : Abs(t) <= 2 * PI_F}
EllipChoices == {50, IsotropyLimit, IsotropyLimit + 1}
EllipRawChoices == {interval_transform(e) : e \in EllipChoices}
FitterAnswers ==
  {[theta |-> t, ellip |-> interval_transform(50)] : t \in ThetaChoices}
    \cup {[theta |-> HalfPI_F, ellip |-> e] : e \in EllipRawChoices}

(* lines 334-344: the cuts, as in fit_pspec *)
SetCuts2D(low, high) == SetCuts(low, high)

fit_2Dpspec(p0, low, high, use_azimmask, ans) ==
  LET cuts == SetCuts2D(low, high)
      args == [p0 |-> p0, low_cut |-> low, high_cut |-> high,
               use_azimmask |-> use_azimmask, fitter |-> ans]
      call == Call("fit_2Dpspec", args, Returned, {}, {})
  IN /\ low_cut' = cuts.low_cut
     /\ high_cut' = cuts.high_cut
     /\ IF cuts.err # ""
        THEN /\ res2D' = res2D
             /\ last' = [call EXCEPT !.outcome = cuts.err]
        ELSE \E mask \in {Mask2D(cuts.low_cut.value, cuts.high_cut.value,
                                   use_azimmask)} :
             LET c == [mask |-> Arr(mask)] @@ call
             IN IF EmptyMask(mask)
                THEN /\ res2D' = res2D
                     /\ last' = [c EXCEPT !.outcome = "ValueError_empty_mask"]
                ELSE LET fit == fit_elliptical_powerlaw(mask,
                                                        InitialParams(p0))
                         ellip == Ellip2D(ans.ellip)
                     IN /\ res2D' =
                             [fit2D |-> fit,
                              slope2D |-> Part(fit, "params[3]"),
                              slope2D_err |-> Part(fit, "stderrs[3]"),
                              theta2D |-> Num(np_remainder(ans.theta, PI_F)),
                              theta2D_err |-> Part(fit, "stderrs[2]"),
                              ellip2D |-> ellip,
                              ellip2D_err |->
                                Ellip2DErr(Part(fit, "stderrs[1]"),
                                           ans.ellip)]
                        /\ last' =
                             [c EXCEPT
                                !.invoked = {"fit_elliptical_powerlaw"},
                                !.warned = IF NearOne(ellip)
                                           THEN {"EllipNearOne"} ELSE {}]
     /\ raw_ps2D' = Ps2DAfterRead(raw_ps2D)
     /\ UNCHANGED <<binvars, res1D, splinevars, tsvars, ddvars, gevars>>

(* the arguments of a call and the optimizer's answer; the answer varies
   with the default p0, and is not asked for when nothing is fitted *)
P0Choices == {<<>>, <<Num(0), Num(0), Num(0), Num(-3)>>}
NoAnswer == [theta |-> 0, ellip |-> interval_transform(50)]
Fit2DpspecWith(lows, highs, azims, answers) ==
  \E p0 \in P0Choices, low \in lows, high \in highs,
     use_azimmask \in azims :
    LET cuts == SetCuts2D(low, high)
    IN IF cuts.err # ""
       THEN fit_2Dpspec(p0, low, high, use_azimmask, NoAnswer)
       ELSE \E ans \in IF EmptyMask(Mask2D(cuts.low_cut.value,
                                           cuts.high_cut.value,
                                           use_azimmask))
                       THEN {NoAnswer}
                       ELSE IF p0 = <<>> THEN answers
                       ELSE {[theta |-> HalfPI_F,
                              ellip |-> interval_transform(50)]} :
              fit_2Dpspec(p0, low, high, use_azimmask, ans)

Fit2Dpspec ==
  Fit2DpspecWith(LowCutChoices, HighCutChoices, BOOLEAN, FitterAnswers)

ComputeRadialPspec2D ==
  \E theta0 \in Theta0Choices : compute_radial_pspec(FALSE, FALSE, None, theta0)

Next2D == ComputeRadialPspec2D \/ Fit2Dpspec
Spec2D == Init /\ [][Next2D]_vars

(* ------------------ the 1D fit and the 2D fit together ----------------- *)
(* one object taking both fits in any order: the radial profile with or
   without the standard deviations, unweighted 1D fits, 2D fits with one
   answer of the optimizer *)
ComputeRadialPspecStddev ==
  \E return_stddev \in BOOLEAN :
    compute_radial_pspec(return_stddev, FALSE, None, None)
FitPspecUnweighted ==
  FitPspecWith(BrkChoices, LowCutChoices, {None}, {FALSE})
Fit2DpspecAfter1D ==
  Fit2DpspecWith(LowCutChoices, {None}, {FALSE},
                 {[theta |-> HalfPI_F, ellip |-> interval_transform(50)]})
NextBoth == ComputeRadialPspecStddev \/ FitPspecUnweighted
              \/ Fit2DpspecAfter1D
SpecBoth == Init /\ [][NextBoth]_vars

(* ----------------------------- break_spline --------------------------- *)
(* line 404: knot_expec = -0.8, in tenths *)
KnotExpec == -8

(* s.get_knots(): at least the two ends of the data, in increasing order *)
KnotValues == (KnotExpec - KnotSpan) .. (KnotExpec + KnotSpan)
KnotSeqs ==
  {SortedSeq(S) : S \in {T \in SUBSET KnotValues :
                            2 <= Cardinality(T) /\ Cardinality(T) <= MaxKnots}}

(* lines 404-406: knots[np.argmin(np.abs(knots - knot_expec))]; argmin is the
   first index of the smallest value *)
NearestKnot_first(ks) == ks[1]
NearestKnot(ks) ==
  LET dist == [i \in 1..Len(ks) |-> Abs(ks[i] - KnotExpec)]
      posn == CHOOSE i \in 1..Len(ks) :
                /\ \A j \in 1..Len(ks) : dist[i] <= dist[j]
                /\ \A j \in 1..(i - 1) : dist[j] > dist[i]
  IN ks[posn]

(* lines 402-413, on the knots of the spline *)
break_spline(ks) ==
  IF Len(ks) > 3 THEN NearestKnot(ks)
  ELSE IF Len(ks) = 2 THEN ks[1]
  ELSE ks[2]

(* a call of break_spline on data whose spline has the knots ks *)
BreakSpline ==
  \E ks \in KnotSeqs :
    /\ knots' = ks
    /\ spline_brk' = Num(break_spline(ks))
    /\ UNCHANGED <<objvars, tsvars, ddvars, gevars>>

NextSpline == BreakSpline
SpecSpline == Init /\ [][NextSpline]_vars

(* ------------------------------- Tsallis ------------------------------- *)
(* Lags are kept in half pixels: the lag h is h / 2 pixels. *)
Shapes == {<<n, MaxDim>> : n \in 1..MaxDim} \cup {<<MaxDim, n>> : n \in 1..MaxDim}
MinAxis(shape) == IF shape[1] <= shape[2] THEN shape[1] ELSE shape[2]

(* lines 44-45: np.floor(np.log2(min(self.data.shape) / 2.)) *)
RECURSIVE MaxPower_full(_)
MaxPower_full(n) == IF n < 2 THEN 0 ELSE 1 + MaxPower_full(n \div 2)
RECURSIVE MaxPower(_)
MaxPower(n) == IF n < 2 THEN -1 ELSE 1 + MaxPower(n \div 2)

(* line 46: [2**i for i in range(max_power + 1)] * u.pix *)
DefaultLags(shape) ==
  Quantity([i \in 1..(MaxPower(MinAxis(shape)) + 1) |-> 2 * 2 ^ (i - 1)],
           "pix")

(* _to_pixel of base_statistic.py, lines 133-151, on an object without a
   header or a distance: pixels come back as they are *)
_to_pixel(value) ==
  IF value.k # "Quantity"
  THEN [ok |-> FALSE, err |-> "TypeError"]
  ELSE IF value.unit = "pix" THEN [ok |-> TRUE, q |-> value]
  ELSE [ok |-> FALSE, err |-> "UnitConversionError"]

(* lines 70 and 77: the two checks on the lags in pixels *)
BelowOnePixel(pix_rad) == \E i \in 1..Len(pix_rad) : pix_rad[i] < 2
TooLarge(pix_rad, shape) ==
  \E i \in 1..Len(pix_rad) : pix_rad[i] > 2 * MinAxis(shape)

(* lines 57-83: the lags setter; the error it raises, or "" *)
lags_setter(values, shape) ==
  IF values.k # "Quantity" THEN "TypeError"
  ELSE LET c == _to_pixel(values)
       IN IF ~c.ok THEN c.err
          ELSE IF BelowOnePixel(c.q.value) THEN "ValueError_small"
          ELSE IF TooLarge(c.q.value, shape) THEN "ValueError_large"
          ELSE ""


(* lines 35-48: Tsallis(img, lags=lags) *)
Tsallis_init(shape, lags) ==
  /\ ts_last = Unset
  /\ ts_shape' = shape
  /\ LET values == IF lags = None THEN DefaultLags(shape) ELSE lags
         err == lags_setter(values, shape)
     IN /\ ts_lags' = IF err = "" THEN values ELSE ts_lags
        /\ ts_last' = [op |-> "__init__", args |-> [lags |-> lags],
                       outcome |-> IF err = "" THEN Returned ELSE err]
  /\ UNCHANGED <<ts_distribs, ts_fit,
               objvars, splinevars, ddvars, gevars>>

(* lines 57-83: tsallis.lags = values *)
SetLags(values) ==
  /\ ts_lags # Unset
  /\ LET err == lags_setter(values, ts_shape)
     IN /\ ts_lags' = IF err = "" THEN values ELSE ts_lags
        /\ ts_last' = [op |-> "lags", args |-> [values |-> values],
                       outcome |-> IF err = "" THEN Returned ELSE err]
  /\ UNCHANGED <<ts_shape, ts_distribs, ts_fit,
               objvars, splinevars, ddvars, gevars>>

(* the histogram of a lag: bin centres in units of the standard deviation,
   and log10 of the normalised counts, -inf for an empty bin *)
Histogram ==
  [x |-> <<-3, -1, 1, 3>>,
   y |-> <<[k |-> "fin"], [k |-> "ninf"], [k |-> "fin"], [k |-> "fin"]>>]

(* lines 85-145: make_tsallis; one distribution per lag, at the lag
   rounded down to whole pixels *)
make_tsallis ==
  /\ ts_lags # Unset
  /\ ts_distribs' = [k |-> "array",
                      rows |-> [i \in 1..Len(ts_lags.value) |->
                                  [lag |-> ts_lags.value[i] \div 2,
                                   dist |-> Histogram]]]
  /\ ts_last' = [op |-> "make_tsallis", args |-> None, outcome |-> Returned]
  /\ UNCHANGED <<ts_shape, ts_lags, ts_fit,
               objvars, splinevars, ddvars, gevars>>

(* lines 390-408: clip_to_sigma *)
InSigma(val, sigma) == val < sigma \/ val > 0 - sigma
clip_to_sigma(x, y, sigma) ==
  LET where == SortedSeq({i \in 1..Len(x) : InSigma(x[i], sigma)})
      clip_x == Take(x, where)
      clip_y == Take(y, where)
      finite == SortedSeq({j \in 1..Len(clip_y) : IsFinite(clip_y[j])})
  IN [x |-> Take(clip_x, finite), y |-> Take(clip_y, finite)]

(* lines 175-177: np.empty((len(self.lags), 3)): a row per lag, of
   whatever the memory holds *)
EmptyRows_single(n) == <<[k |-> "uninitialised"]>>
EmptyRows(n) == [i \in 1..n |-> [k |-> "uninitialised"]]

(* lines 161-189: fit_tsallis.  curve_fit succeeds for every distribution
   (cf = 0) or raises at distribution cf. *)
SigmaClipDefault == 2
fit_tsallis(sigma_clip, cf) ==
  /\ ts_lags # Unset
  /\ IF ts_distribs = Unset
     THEN /\ ts_fit' = ts_fit
          /\ ts_last' = [op |-> "fit_tsallis",
                         args |-> [sigma_clip |-> sigma_clip],
                         outcome |-> "Exception"]
     ELSE LET n == Len(ts_lags.value)
              m == Len(ts_distribs.rows)
              rows == EmptyRows(n)
              \* the first distribution whose step does not complete
              stop == IF cf # 0 /\ cf <= Len(rows) THEN cf
                      ELSE IF m > Len(rows) THEN Len(rows) + 1
                      ELSE IF cf # 0 THEN cf
                      ELSE m + 1
              clipped(i) == clip_to_sigma(ts_distribs.rows[i].dist.x,
                                          ts_distribs.rows[i].dist.y,
                                          sigma_clip)
              fill(what) ==
                [i \in 1..Len(rows) |->
                   IF i < stop THEN [k |-> what,
                                     lag |-> ts_distribs.rows[i].lag,
                                     data |-> clipped(i)]
                   ELSE rows[i]]
          IN /\ ts_fit' = [params |-> fill("params"),
                           stderrs |-> fill("diag(pcov)"),
                           chisq |-> fill("chisquare")]
             /\ ts_last' = [op |-> "fit_tsallis",
                            args |-> [sigma_clip |-> sigma_clip],
                            outcome |-> IF stop = m + 1 THEN Returned
                                        ELSE IF stop = cf THEN "CurveFitError"
                                        ELSE "IndexError"]
  /\ UNCHANGED <<ts_shape, ts_lags, ts_distribs,
               objvars, splinevars, ddvars, gevars>>

(* the lags a caller may give: not a Quantity, a Quantity that is no
   length, and lags in pixels below one pixel, of one pixel, just above half
   of the smallest axis, of the smallest axis, and above it *)
LagChoices(shape) ==
  {[k |-> "list"], Quantity(<<2>>, "K")}
    \cup {Quantity(v, "pix") :
            v \in {<<1>>, <<2>>, <<2, MinAxis(shape) + 1>>,
                   <<2, 4, 2 * MinAxis(shape)>>,
                   <<2, 2 * MinAxis(shape) + 1>>}}

NextTsallis ==
  \/ \E shape \in Shapes : \E lags \in {None} \cup LagChoices(shape) :
       Tsallis_init(shape, lags)
  \/ ts_lags # Unset /\ \E values \in LagChoices(ts_shape) : SetLags(values)
  \/ make_tsallis
  \/ \E cf \in 0..(IF ts_distribs = Unset THEN 0
                    ELSE Len(ts_distribs.rows)) :
       fit_tsallis(SigmaClipDefault, cf)
SpecTsallis == Init /\ [][NextTsallis]_vars

(* --------------------------- DendroDistance ---------------------------- *)
MinFeaturesDefault == 100
(* Dendrogram_Stats.numfeatures of a cube: a number of features for each
   min_delta, here at and just above min_features *)
NumFeatures(n) == [1..n -> {MinFeaturesDefault, MinFeaturesDefault + 1}]

(* lines 213-214: np.argwhere(numfeatures > min_features), indices from 0 *)
argwhere_above(numfeatures, min_features) ==
  SortedSeq({i - 1 : i \in {j \in 1..Len(numfeatures) :
                              numfeatures[j] > min_features}})
(* lines 215 and 222: ndarray.any(), true when an element is not zero *)
any(a) == \E j \in 1..Len(a) : a[j] # 0

(* lines 190-238: DendroDistance(cube1, cube2, min_features=min_features),
   the two dendrograms as astrodendro computed them *)
DendroDistance_init(numfeatures1, numfeatures2, min_features) ==
  LET cutoff1 == argwhere_above(numfeatures1, min_features)
      cutoff2 == argwhere_above(numfeatures2, min_features)
      outcome == IF ~any(cutoff1) THEN "ValueError_cube1"
                 ELSE IF ~any(cutoff2) THEN "ValueError_cube2"
                 ELSE Returned
      last1 == cutoff1[Len(cutoff1)]
      last2 == cutoff2[Len(cutoff2)]
  IN /\ dd_numfeatures' = <<numfeatures1, numfeatures2>>
     /\ dd_cutoff' = IF outcome = Returned
                     THEN Num(IF last1 <= last2 THEN last1 ELSE last2)
                     ELSE Unset
     /\ dd_last' = [op |-> "__init__",
                    args |-> [min_features |-> min_features],
                    outcome |-> outcome]
     /\ UNCHANGED <<objvars, splinevars, tsvars, gevars>>

NextDendro ==
  \E n \in 1..MaxLevels : \E nf1 \in NumFeatures(n), nf2 \in NumFeatures(n) :
    DendroDistance_init(nf1, nf2, MinFeaturesDefault)
SpecDendro == Init /\ [][NextDendro]_vars

(* -------------------------------- Genus -------------------------------- *)
(* line 62: np.linspace(1.0, 0.1 * min(img.shape), 5), five radii *)
DefaultRadiiCount == 5
RadiiChoices ==
  {None} \cup {[k |-> "list", v |-> v] :
                 v \in {<<>>, <<Num(1)>>, <<Num(1), Num(2)>>}}

(* an array by its shape: rows and columns *)
Shape(rows, cols) == [rows |-> rows, cols |-> cols]

(* lines 40-66: Genus(img, numpts=numpts, smoothing_radii=smoothing_radii) *)
Genus_init(nanflag, numpts, smoothing_radii) ==
  LET radii == IF smoothing_radii # None THEN smoothing_radii
               ELSE [k |-> "ndarray",
                     v |-> [i \in 1..DefaultRadiiCount |->
                              [k |-> "linspace", i |-> i]]]
  IN /\ ge_nanflag' = nanflag
     /\ ge_thresholds' = [i \in 1..numpts |-> [k |-> "linspace", i |-> i]]
     /\ ge_radii' = radii
     /\ ge_stats' = Shape(numpts, Len(radii.v))
     /\ ge_smoothed' = <<>>
     /\ ge_last' = [op |-> "__init__"]
     /\ UNCHANGED <<objvars, splinevars, tsvars, ddvars>>

(* lines 74-82: the image smoothed at one radius *)
Smoothed(width, nanflag) ==
  [k |-> "convolve_fft", width |-> width, interpolate_nan |-> nanflag]
(* lines 68-82: make_smooth_arrays *)
make_smooth_arrays(images, radii, nanflag) ==
  images \o [i \in 1..Len(radii) |-> Smoothed(radii[i], nanflag)]
(* lines 128-169: compute_genus, by the shape of what it returns *)
compute_genus(images, thresholds) == Shape(Len(images), Len(thresholds))

(* lines 98-125: run(): make_smooth_arrays, then make_genus_curve *)
Genus_run ==
  /\ ge_radii # Unset
  /\ Len(ge_smoothed) <= (MaxRuns - 1) * Len(ge_radii.v)
  /\ LET images == make_smooth_arrays(ge_smoothed, ge_radii.v, ge_nanflag)
     IN /\ ge_smoothed' = images
        /\ ge_stats' = compute_genus(images, ge_thresholds)
  /\ ge_last' = [op |-> "run"]
  /\ UNCHANGED <<ge_radii, ge_thresholds, ge_nanflag,
               objvars, splinevars, tsvars, ddvars>>

NextGenus ==
  \/ \E nanflag \in BOOLEAN, numpts \in 1..MaxPts, radii \in RadiiChoices :
       Genus_init(nanflag, numpts, radii)
  \/ Genus_run
SpecGenus == Init /\ [][NextGenus]_vars

(* ====================== properties of fit_pspec ======================== *)
FitPspecCalled == last.op = "fit_pspec"

(* the profile points inside the stored cuts, and the points on each side
   of a frequency among them *)
InCuts == {i \in 1..Len(freqs) :
             low_cut.value <= freqs[i] /\ freqs[i] <= high_cut.value}
PointsBelow(b) == Cardinality({i \in InCuts : freqs[i] < b})
PointsBeyond(b) == Cardinality({i \in InCuts : freqs[i] > b})

(* the call reached Lm_Seg and Lm_Seg fitted a break *)
BreakFitted ==
  /\ FitPspecCalled
  /\ "Lm_Seg" \in last.invoked
  /\ last.args.Lm_Seg.k = "ok"
FittedBreak == Pow10(last.args.Lm_Seg.brk)

(* fit is a line through every profile point inside the stored cuts *)
FullRangeLine(fit) ==
  /\ Len(fit.x) = Cardinality(InCuts)
  /\ Len(fit.y) = Cardinality(InCuts)
  /\ {<<fit.x[j], fit.y[j]>> : j \in 1..Len(fit.x)}
       = {<<Log10F(freqs[i]), Log10P(ps1D[i])>> : i \in InCuts}
UnbrokenResult ==
  /\ res1D.brk = None
  /\ res1D.fit.k \in {"OLS", "WLS"}
  /\ res1D.slope = Part(res1D.fit, "params[1]")
  /\ res1D.slope_err = Part(res1D.fit, "bse[1]")
BrokenResult ==
  /\ res1D.brk # None
  /\ res1D.fit.k = "Lm_Seg"
  /\ res1D.slope = Part(res1D.fit, "slopes")
  /\ res1D.slope_err = Part(res1D.fit, "slope_errs")

(* C1: a call of fit_pspec with weighted_fit=True and a break guess ends in
   an error, invokes none of Lm_Seg, OLS and WLS, and leaves slope,
   slope_err, brk, brk_err and fit as they were before the call. *)
C1_WeightedBreakRefused ==
  [][(FitPspecCalled' /\ last'.args.weighted_fit /\ last'.args.brk # None)
       => (IsError(last') /\ last'.invoked = {} /\ res1D' = res1D)]_vars
C1_Witness ==
  /\ FitPspecCalled
  /\ last.args.weighted_fit /\ last.args.brk # None
  /\ last.outcome = "ValueError_WLS_break"
  /\ stddev_flag
  /\ res1D.fit # Unset

(* C2: when Lm_Seg fits a break and fewer than min_fits_pts of the points
   inside the cuts lie strictly below it, brk is None, the call warns, and
   unless the line fit itself fails the call returns with slope and
   slope_err those of the line through all points inside the cuts. *)
C2_FewPointsBelowBreak ==
  [][(BreakFitted' /\ PointsBelow(FittedBreak)' < last'.args.min_fits_pts)
       => /\ res1D'.brk = None
          /\ "NotEnoughPoints" \in last'.warned
          /\ last'.outcome # "LmSegError"
          /\ (last'.args.statsmodels = "fit"
                => /\ last'.outcome = Returned
                   /\ UnbrokenResult'
                   /\ res1D'.fit.k = "OLS"
                   /\ FullRangeLine(res1D.fit)')]_vars
C2_Witness ==
  /\ BreakFitted
  /\ last.args.min_fits_pts = MinPtsDefault
  /\ PointsBelow(FittedBreak) < last.args.min_fits_pts
  /\ last.outcome = Returned
  /\ "NotEnoughPoints" \in last.warned
  /\ res1D.brk = None

(* C3 as claimed: a fitted break is discarded when fewer than min_fits_pts
   points inside the cuts lie beyond it. *)
C3_AsClaimed ==
  [][(BreakFitted' /\ PointsBeyond(FittedBreak)' < last'.args.min_fits_pts)
       => res1D'.brk = None]_vars
(* C3 as amended: a fitted break is discarded exactly when fewer than
   min_fits_pts points inside the cuts lie strictly below it; the points
   beyond the break are not counted. *)
C3_DiscardedIffFewBelow ==
  [][BreakFitted'
       => ((res1D'.brk = None)
             <=> (PointsBelow(FittedBreak)' < last'.args.min_fits_pts))]_vars
C3_Witness ==
  /\ BreakFitted
  /\ last.outcome = Returned
  /\ PointsBeyond(FittedBreak) < last.args.min_fits_pts
  /\ PointsBelow(FittedBreak) >= last.args.min_fits_pts
  /\ res1D.brk = Quantity(FittedBreak, "1/pix")

(* C4: after a call of fit_pspec that returned, either brk is None and
   slope, slope_err and fit are the line's, or brk is set and slope,
   slope_err and fit are the two-segment fit's. *)
C4_OneVariant ==
  (FitPspecCalled /\ last.outcome = Returned)
    => (UnbrokenResult \/ BrokenResult)
C4_Witness ==
  /\ FitPspecCalled /\ last.outcome = Returned
  /\ UnbrokenResult
  /\ res1D.brk_err # None /\ res1D.brk_err # Unset

(* C5: with no break guess, or with a break fit that failed, a call that
   passes its checks fits one line, WLS if weighted and OLS if not, through
   all points inside the cuts and sets brk to None; the failed break fit
   is a warning and raises nothing. *)
C5_SingleLine ==
  [][(/\ FitPspecCalled'
      /\ binned
      /\ last'.args.weighted_fit => stddev_flag
      /\ \/ last'.args.brk = None
         \/ /\ "Lm_Seg" \in last'.invoked
            /\ last'.args.Lm_Seg.k = "failed")
       => /\ res1D'.brk = None
          /\ (IF last'.args.weighted_fit THEN "WLS" ELSE "OLS")
               \in last'.invoked
          /\ (last'.args.brk # None
                => /\ last'.warned = {"BreakFailed"}
                   /\ last'.outcome # "LmSegError")
          /\ (last'.args.statsmodels = "fit"
                => /\ last'.outcome = Returned
                   /\ UnbrokenResult'
                   /\ res1D'.fit.k = (IF last'.args.weighted_fit
                                      THEN "WLS" ELSE "OLS")
                   /\ FullRangeLine(res1D.fit)')]_vars
C5_Witness ==
  /\ FitPspecCalled /\ last.outcome = Returned
  /\ last.args.Lm_Seg.k = "failed"
  /\ last.warned = {"BreakFailed"}
  /\ UnbrokenResult
  /\ Len(res1D.fit.x) > 2

(* C6: a weighted call of fit_pspec ends in an error, with nothing fitted,
   unless the latest compute_radial_pspec had return_stddev; and a call
   that fits with weights takes them from the standard deviations that the
   latest compute_radial_pspec returned with the current ps1D. *)
LatestProfile ==
  RadialProfile[CHOOSE z \in ZeroRings : raw_ps2D = SpectrumOf[z],
                binning.return_stddev, binning.logspacing, binning.max_bin,
                binning.theta_0]
C6_WeightsFromLatestBinning ==
  [][(FitPspecCalled' /\ last'.args.weighted_fit)
       => /\ (binning = None \/ ~binning.return_stddev)
               => (IsError(last') /\ last'.invoked = {})
          /\ "WLS" \in last'.invoked
               => /\ ps1D = LatestProfile.ps1D
                  /\ ps1D_stddev = Arr(LatestProfile.stddev)
                  /\ last'.args.statsmodels = "raise"
                     \/ \A j \in 1..Len(res1D'.fit.x) :
                          \E i \in InCuts' :
                            /\ res1D'.fit.x[j] = Log10F(freqs[i])
                            /\ res1D'.fit.weights[j]
                                 = [k |-> "1/sq",
                                    of |-> Log10S(LatestProfile.stddev[i])]]_vars
C6_Witness ==
  /\ FitPspecCalled
  /\ last.args.weighted_fit
  /\ last.outcome = "ValueError_no_stddev"
  /\ binning # None /\ ~binning.return_stddev
  /\ ps1D_stddev # Unset
  /\ Len(ps1D_stddev.v) # Len(ps1D)

(* C8 as claimed: a call of fit_pspec that finds no profile point inside
   the cuts ends in an error before any fitter is invoked. *)
C8_AsClaimed ==
  [][(FitPspecCalled' /\ binned /\ low_cut' # Unset /\ high_cut' # Unset
        /\ InCuts' = {})
       => (IsError(last') /\ last'.invoked = {})]_vars

(* C14 as claimed, for the line fits: the samples of a stored OLS or WLS
   fit all have a finite log10 frequency and a finite log10 power. *)
C14_AsClaimed ==
  (FitPspecCalled /\ last.outcome = Returned
     /\ res1D.fit.k \in {"OLS", "WLS"})
    => \A j \in 1..Len(res1D.fit.x) :
         IsFinite(res1D.fit.x[j]) /\ IsFinite(res1D.fit.y[j])

(* C15 as claimed: the weight of every sample of a stored weighted fit is
   the inverse square of the standard deviation of its radial bin. *)
C15_AsClaimed ==
  (FitPspecCalled /\ last.outcome = Returned /\ "WLS" \in last.invoked)
    => \A j \in 1..Len(res1D.fit.x) :
         \E i \in InCuts :
           /\ res1D.fit.x[j] = Log10F(freqs[i])
           /\ res1D.fit.weights[j]
                = [k |-> "1/sq", of |-> ps1D_stddev.v[i]]

(* C16 as claimed: a call of fit_pspec without a break guess that returns
   has attempted the fit with a break. *)
C16_AsClaimed ==
  (FitPspecCalled /\ last.outcome = Returned /\ last.args.brk = None)
    => "Lm_Seg" \in last.invoked

(* C18 as claimed: after a call of fit_pspec with a break guess that
   returned without a break, the stored results differ from those a call
   without a break guess stores. *)
Downgraded ==
  /\ FitPspecCalled /\ last.outcome = Returned
  /\ last.args.brk # None
  /\ res1D.brk = None
UnrequestedResult ==
  [brk |-> None, brk_err |-> None,
   slope |-> Part(res1D.fit, "params[1]"),
   slope_err |-> Part(res1D.fit, "bse[1]"),
   fit |-> OLSFit(FitX(low_cut.value, high_cut.value),
                  FitY(low_cut.value, high_cut.value))]
C18_AsClaimed == Downgraded => res1D # UnrequestedResult

(* C25 as claimed: after a call of fit_pspec that returned, brk_err is
   None exactly when brk is None. *)
C25_AsClaimed ==
  (FitPspecCalled /\ last.outcome = Returned)
    => ((res1D.brk_err = None) <=> (res1D.brk = None))

(* C26 as claimed: once a radial profile has been computed, a stored
   ps1D_stddev is the standard deviation of the bins of the latest
   profile, one value per entry of freqs and ps1D. *)
C26_AsClaimed ==
  (binning # None /\ ps1D_stddev # Unset)
    => /\ Len(ps1D_stddev.v) = Len(freqs)
       /\ ps1D_stddev.v
            = RadialProfile[CHOOSE z \in ZeroRings : raw_ps2D = SpectrumOf[z],
                            TRUE, binning.logspacing, binning.max_bin,
                            binning.theta_0].stddev

(* ===================== properties of fit_2Dpspec ======================= *)
Fit2DCalled == last.op = "fit_2Dpspec"
(* the call got as far as making its mask *)
MaskMade == Fit2DCalled /\ "mask" \in DOMAIN last
AzimApplied == last.args.use_azimmask /\ azim_mask # Unset

(* the pixels whose radial frequency sqrt(ky^2 + kx^2) is inside the stored
   cuts and, when the azimuthal mask is applied, inside that mask *)
InCuts2D(p) ==
  /\ low_cut.value * low_cut.value <= R2(p)
  /\ R2(p) <= high_cut.value * high_cut.value
Selected2D ==
  {p \in Pixels : InCuts2D(p) /\ (AzimApplied => azim_mask.v[p])}

(* C7: a call of fit_2Dpspec whose cuts, with the azimuthal mask when it
   is applied, select no pixel ends in the empty-mask error, without the
   elliptical fitter being invoked and with fit2D, slope2D, theta2D,
   ellip2D and their errors as they were. *)
C7_EmptyMaskRaises ==
  [][(MaskMade' /\ Selected2D' = {})
       => /\ last'.outcome = "ValueError_empty_mask"
          /\ last'.invoked = {}
          /\ res2D' = res2D]_vars
C7_Witness ==
  /\ MaskMade
  /\ Selected2D = {}
  /\ last.outcome = "ValueError_empty_mask"
  /\ AzimApplied
  /\ res2D.fit2D # Unset

(* C9: the mask of a call of fit_2Dpspec covers the pixels of the 2D
   spectrum and is true exactly at the pixels with low_cut <= radial
   frequency <= high_cut that, when the azimuthal mask is applied, are
   also inside the azimuthal mask. *)
C9_MaskIsCutsAndAzim ==
  [][MaskMade'
       => /\ DOMAIN last'.mask.v = DOMAIN raw_ps2D
          /\ \A p \in DOMAIN raw_ps2D :
               last'.mask.v[p] <=> (p \in Selected2D')]_vars
C9_Witness ==
  /\ MaskMade
  /\ last.outcome = Returned
  /\ AzimApplied
  /\ \E p \in Pixels : InCuts2D(p) /\ ~last.mask.v[p]
  /\ \E p \in Pixels :
       R2(p) = low_cut.value * low_cut.value /\ last.mask.v[p]
  /\ \E p \in Pixels :
       R2(p) = high_cut.value * high_cut.value /\ last.mask.v[p]

(* C10 as claimed: after a fit, 0 <= theta2D < pi, and theta2D is the
   fitter's theta plus a multiple of pi, to the precision of the numbers. *)
MaxFloat == 3 * 2 ^ ExpMax
CongruentModPi(a, t) ==
  \E n \in -2..2 :
    /\ Abs(t + n * PI_F) <= MaxFloat
    /\ Round(t + n * PI_F) = a
C10_AsClaimed ==
  (Fit2DCalled /\ last.outcome = Returned)
    => /\ 0 <= res2D.theta2D.v
       /\ res2D.theta2D.v < PI_F
       /\ CongruentModPi(res2D.theta2D.v, last.args.fitter.theta)

(* C21 as claimed: when the latest compute_radial_pspec had no azimuthal
   constraint, the mask of a call of fit_2Dpspec with use_azimmask is the
   mask of the cuts alone. *)
C21_AsClaimed ==
  (MaskMade /\ last.args.use_azimmask
     /\ binning # None /\ binning.theta_0 = None)
    => \A p \in Pixels : last.mask.v[p] <=> InCuts2D(p)

(* C11: a call of fit_2Dpspec that fits warns of a near-isotropic field
   exactly when the ellipticity it stores is above 0.97; with or without
   the warning the call returns and stores all 2D results. *)
Fitted2D ==
  /\ Fit2DCalled
  /\ "fit_elliptical_powerlaw" \in last.invoked
AllStored2D ==
  \A f \in DOMAIN res2D : res2D[f] # Unset
C11_IsotropyAdvisory ==
  Fitted2D
    => /\ ("EllipNearOne" \in last.warned) <=> (res2D.ellip2D.v > 97)
       /\ last.outcome = Returned
       /\ AllStored2D
C11_Witness ==
  /\ Fitted2D
  /\ res2D.ellip2D.v = 98
  /\ "EllipNearOne" \in last.warned
  /\ last.outcome = Returned
  /\ AllStored2D

(* C12: after a fit, ellip2D is the transform of the optimizer's raw
   ellipticity and ellip2D_err is the optimizer's standard error of the raw
   ellipticity carried through the transform at that raw value; neither is
   the raw parameter or the raw standard error. *)
C12_ErrorThroughTransform ==
  Fitted2D
    => /\ res2D.ellip2D_err
            = inverse_interval_transform_stderr(
                Part(res2D.fit2D, "stderrs[1]"), last.args.fitter.ellip)
       /\ res2D.ellip2D_err # Part(res2D.fit2D, "stderrs[1]")
       /\ res2D.ellip2D = inverse_interval_transform(last.args.fitter.ellip)
       /\ res2D.ellip2D # last.args.fitter.ellip
C12_Witness ==
  /\ Fitted2D
  /\ last.args.fitter.ellip = interval_transform(98)
  /\ res2D.ellip2D_err.of = interval_transform(98)
  /\ res2D.ellip2D_err.stderr = Part(res2D.fit2D, "stderrs[1]")

(* ================= properties of the two fits together ================= *)
(* C13: the fitter starts from the p0 given when one is given.  With an
   empty p0 it starts from ellip_conv 0 and theta pi/2 and, when a 1D slope
   is stored, from that slope (its first entry when it is the pair of
   slopes of a fit with a break) and params[0] of the stored 1D fit; when
   no 1D slope is stored, from slope -2 and log10 of the largest value of
   the spectrum. *)
C13_InitialParameters ==
  Fitted2D
    => LET given == last.args.p0
           start == res2D.fit2D.p0
       IN /\ given # <<>> => start = given
          /\ given = <<>>
               => /\ start[2] = Num(0)
                  /\ start[3] = Num(HalfPI_F)
                  /\ res1D.slope = Unset
                       => /\ start[4] = Num(-2)
                          /\ start[1] = [k |-> "log10(nanmax(ps2D))"]
                  /\ res1D.slope # Unset
                       => /\ start[1] = Part(res1D.fit, "params[0]")
                          /\ start[4] = IF res1D.fit.k = "Lm_Seg"
                                        THEN Part(Part(res1D.fit, "slopes"),
                                                  "[0]")
                                        ELSE Part(res1D.fit, "params[1]")
C13_Witness ==
  /\ Fitted2D
  /\ last.args.p0 = <<>>
  /\ BrokenResult
  /\ res2D.fit2D.p0[4] = Part(res1D.slope, "[0]")
  /\ res2D.fit2D.p0[1] = Part(res1D.fit, "params[0]")

(* C20 as claimed: a call of fit_2Dpspec leaves the 1D results and, once a
   1D fit is stored, the cuts as they were; a call of fit_pspec leaves the
   2D results and, once a 2D fit is stored, the cuts as they were. *)
C20_AsClaimed ==
  [][/\ Fit2DCalled'
          => /\ res1D' = res1D
             /\ res1D.fit # Unset
                  => (low_cut' = low_cut /\ high_cut' = high_cut)
     /\ FitPspecCalled'
          => /\ res2D' = res2D
             /\ res2D.fit2D # Unset
                  => (low_cut' = low_cut /\ high_cut' = high_cut)]_vars

(* C19: a call of compute_radial_pspec with the arguments of the call of
   compute_radial_pspec before it leaves freqs, ps1D and ps1D_stddev as
   they are, whatever fits were made in between; and no call of
   compute_radial_pspec, fit_pspec or fit_2Dpspec changes the stored 2D
   power spectrum. *)
BinningCalled == last.op = "compute_radial_pspec"
C19_IdempotentBinning ==
  [][/\ (BinningCalled' /\ binning # None /\ binning' = binning)
          => /\ freqs' = freqs
             /\ ps1D' = ps1D
             /\ ps1D_stddev' = ps1D_stddev
     /\ raw_ps2D' = raw_ps2D]_vars
C19_Witness ==
  /\ BinningCalled
  /\ last.repeated
  /\ binning.return_stddev
  /\ ps1D_stddev = Arr(LatestProfile.stddev)
  /\ res1D.fit # Unset
  /\ res2D.fit2D # Unset

(* ===================== properties of break_spline ====================== *)
(* C17: break_spline returns one of the knots: with more than 3 knots one
   that no other knot is nearer to knot_expec than, with exactly 2 knots
   the first, with exactly 3 the middle one. *)
SplineCalled == spline_brk # Unset
IsKnot(v) == \E i \in 1..Len(knots) : knots[i] = v
C17_BreakIsAKnot ==
  SplineCalled
    => /\ IsKnot(spline_brk.v)
       /\ Len(knots) > 3
            => \A i \in 1..Len(knots) :
                 Abs(spline_brk.v - KnotExpec) <= Abs(knots[i] - KnotExpec)
       /\ Len(knots) = 2 => spline_brk.v = knots[1]
       /\ Len(knots) = 3 => spline_brk.v = knots[2]
C17_Witness ==
  /\ SplineCalled
  /\ Len(knots) > 3
  /\ ~IsKnot(KnotExpec)
  /\ spline_brk.v # knots[1]
  /\ spline_brk.v # knots[Len(knots)]

(* C22 as claimed, for the 2D fit: with the default cuts every pixel whose
   radial frequency is above 1/max(shape) and not above high_cut is in the
   mask of fit_2Dpspec. *)
DefaultCuts == last.args.low_cut = None /\ last.args.high_cut = None
C22_AsClaimed ==
  (MaskMade /\ DefaultCuts)
    => \A p \in Pixels :
         (R2(p) > 1 /\ R2(p) <= high_cut.value * high_cut.value
            /\ (AzimApplied => azim_mask.v[p]))
           => last.mask.v[p]
(* C22 as amended: fit_pspec and fit_2Dpspec set a low_cut not given to
   1 / (0.5 * max(shape)), that is 2 / GridN, and a high_cut not given to
   the largest binned frequency.  With these cuts fit_pspec fits the bins
   of every frequency but 0 and 1 / max(shape), and the mask of
   fit_2Dpspec holds the pixels of radial frequency from 2 / max(shape) up
   to high_cut: the modes between 1 / max(shape) and 2 / max(shape) are
   left out as well. *)
FitCalled == FitPspecCalled \/ Fit2DCalled
C22_DefaultCuts ==
  [][FitCalled'
       => /\ last'.args.low_cut = None
               => low_cut' = Quantity(2, "1/pix")
          /\ (last'.args.high_cut = None /\ last'.args.low_cut = None
                /\ binned)
               => high_cut' = Quantity(SeqMax(freqs), "1/pix")
          /\ (FitPspecCalled' /\ DefaultCuts' /\ last'.invoked # {}
                /\ last'.outcome = Returned)
               => {res1D'.fit.x[j] : j \in 1..Len(res1D'.fit.x)}
                    = {Log10F(freqs[i]) :
                         i \in {n \in 1..Len(freqs) : freqs[n] \notin {0, 1}}}
          /\ (MaskMade' /\ DefaultCuts')
               => \A p \in Pixels :
                    last'.mask.v[p]
                      <=> /\ R2(p) >= 4
                          /\ R2(p) <= SeqMax(freqs) * SeqMax(freqs)
                          /\ AzimApplied' => azim_mask.v[p]]_vars
C22_Witness ==
  /\ MaskMade /\ DefaultCuts
  /\ last.outcome = Returned
  /\ res1D.fit # Unset
  /\ \E p \in Pixels : R2(p) = 2 /\ ~last.mask.v[p]
  /\ \E p \in Pixels : R2(p) = 4 /\ last.mask.v[p]

(* ======================= properties of Tsallis ========================= *)

(* C23: Tsallis(img) with lags=None is accepted by the lags setter and
   stores the lags 2^0, 2^1, ..., 2^m pixels, 2^m being the largest power of
   two that is at most half of the smallest axis of the image (no lag at
   all when that half is below one pixel); a 128 by 128 image gives
   1, 2, 4, 8, 16, 32, 64 (in half pixels 2, 4, ..., 128). *)
C23_DefaultLags ==
  /\ DefaultLags(<<128, 128>>).value = <<2, 4, 8, 16, 32, 64, 128>>
  /\ ((ts_last # Unset /\ ts_last.op = "__init__") /\ ts_last.args.lags = None)
       => /\ ts_last.outcome = Returned
          /\ ts_lags.k = "Quantity" /\ ts_lags.unit = "pix"
          /\ LET h == ts_lags.value
                 n == Len(h)
                 axis == MinAxis(ts_shape)
             IN /\ \A i \in 1..n : h[i] = 2 * 2 ^ (i - 1)
                /\ n = 0 => axis < 2
                /\ n > 0 => (h[n] <= axis /\ 2 * h[n] > axis)
C23_Witness ==
  /\ (ts_last # Unset /\ ts_last.op = "__init__") /\ ts_last.args.lags = None
  /\ MinAxis(ts_shape) = 4
  /\ ts_lags.value = <<2, 4>>

(* C24: the rows that fit_tsallis fits were clipped by clip_to_sigma to
   exactly the pairs of the histogram with x in [-sigma, sigma] and a finite
   y, in their order. *)
C24_AsClaimed ==
  (ts_last # Unset /\ ts_last.op = "fit_tsallis") /\ ts_fit # Unset
    => \A i \in 1..Len(ts_fit.params) :
         ts_fit.params[i].k = "params"
           => LET d == ts_distribs.rows[i].dist
                  sigma == ts_last.args.sigma_clip
                  kept == SortedSeq({j \in 1..Len(d.x) :
                                       /\ d.x[j] >= 0 - sigma
                                       /\ d.x[j] <= sigma
                                       /\ IsFinite(d.y[j])})
              IN ts_fit.params[i].data
                   = [x |-> Take(d.x, kept), y |-> Take(d.y, kept)]

(* C27: fit_tsallis before any make_tsallis raises and leaves the fit
   attributes unassigned; after make_tsallis it never raises that exception
   and the parameters, the standard errors and the chi-square values it
   stores have one row per lag each; when the lags are the ones make_tsallis
   ran with and every curve_fit returned, row i is the fit at lag i. *)
C27_RowPerLag ==
  (ts_last # Unset /\ ts_last.op = "fit_tsallis")
    => IF ts_distribs = Unset
       THEN ts_last.outcome = "Exception" /\ ts_fit = Unset
       ELSE /\ ts_last.outcome # "Exception"
            /\ Len(ts_fit.params) = Len(ts_lags.value)
            /\ Len(ts_fit.stderrs) = Len(ts_lags.value)
            /\ Len(ts_fit.chisq) = Len(ts_lags.value)
            /\ (/\ ts_last.outcome = Returned
                /\ Len(ts_distribs.rows) = Len(ts_lags.value))
                 => \A i \in 1..Len(ts_lags.value) :
                      /\ ts_fit.params[i].k = "params"
                      /\ ts_fit.stderrs[i].k = "diag(pcov)"
                      /\ ts_fit.chisq[i].k = "chisquare"
                      /\ ts_fit.params[i].lag = ts_distribs.rows[i].lag
C27_Witness ==
  /\ (ts_last # Unset /\ ts_last.op = "fit_tsallis") /\ ts_last.outcome = Returned
  /\ ts_distribs # Unset
  /\ Len(ts_lags.value) = 2 /\ Len(ts_fit.params) = 2
  /\ \A i \in 1..2 : ts_fit.params[i].lag = ts_lags.value[i] \div 2

(* C28: an assignment to lags raises TypeError for a value that is no
   Quantity and ValueError when a lag in pixels is below one pixel or above
   half of the smallest axis; a rejected assignment leaves the lags as they
   were and an accepted value is stored as given. *)
C28_AsClaimed ==
  [][(ts_last' # Unset /\ ts_last'.op = "lags")
       => LET v == ts_last'.args.values
          IN /\ v.k # "Quantity" => ts_last'.outcome = "TypeError"
             /\ (v.k = "Quantity" /\ v.unit = "pix"
                   /\ \E i \in 1..Len(v.value) :
                        v.value[i] < 2 \/ v.value[i] > MinAxis(ts_shape))
                  => ts_last'.outcome \in {"ValueError_small",
                                           "ValueError_large"}
             /\ ts_last'.outcome # Returned => ts_lags' = ts_lags
             /\ ts_last'.outcome = Returned => ts_lags' = v]_vars

(* ==================== properties of DendroDistance ===================== *)
(* C29: the constructor of DendroDistance raises ValueError exactly when a
   cube has no level with more than min_features features; when both cubes
   have one, be it only the first level, it returns and cutoff is the
   smaller of the two cubes' last qualifying indices. *)
C29_AsClaimed ==
  dd_last # Unset
    => LET mf == dd_last.args.min_features
           \* the levels of a cube with more than min_features features
           q1 == {i \in 1..Len(dd_numfeatures[1]) : dd_numfeatures[1][i] > mf}
           q2 == {i \in 1..Len(dd_numfeatures[2]) : dd_numfeatures[2][i] > mf}
       IN /\ dd_last.outcome = "ValueError_cube1" <=> q1 = {}
          /\ dd_last.outcome # Returned <=> (q1 = {} \/ q2 = {})
          /\ (q1 # {} /\ q2 # {})
               => LET l1 == (CHOOSE i \in q1 : \A j \in q1 : j <= i) - 1
                      l2 == (CHOOSE i \in q2 : \A j \in q2 : j <= i) - 1
                  IN dd_cutoff = Num(IF l1 <= l2 THEN l1 ELSE l2)

(* ========================= properties of Genus ========================= *)
(* C30: after every run() on a Genus object, the first and any later one,
   smoothed_images holds one image per smoothing radius and genus_stats has
   a row per smoothing radius and a column per threshold; a run() after a
   run() leaves both as they were. *)
C30_AsClaimed ==
  [][(ge_last' # Unset /\ ge_last'.op = "run")
       => /\ Len(ge_smoothed') = Len(ge_radii'.v)
          /\ ge_stats' = Shape(Len(ge_radii'.v), Len(ge_thresholds'))
          /\ ge_last.op = "run"
               => (ge_smoothed' = ge_smoothed /\ ge_stats' = ge_stats)]_vars
====
